---- MODULE Spec2Model ----
(***************************************************************************)
(* mgrep: Boyer-Moore search of a byte pattern in a memory-mapped file.    *)
(* The model follows src/boyer_moore.c (make_delta1, is_prefix,            *)
(* suffix_length, make_delta2, bm_search) and src/mgrep.c (hchar,          *)
(* hex_decode, print_match, main).  C arrays are functions over 0..n-1 so  *)
(* that indices are the source's indices.  size_t is an unsigned integer   *)
(* of SizeBits bits (64 on the build; scaled down, all arithmetic on it is *)
(* taken modulo 2^SizeBits).                                               *)
(***************************************************************************)
EXTENDS Integers, Sequences, FiniteSets, TLC

\* ---- bounds of the model ------------------------------------------------
SizeBits == 16
MaxWordLen == 5
MaxFileLen == 7
MaxOptC == 1
MaxLiveWordLen == 3
MaxLiveFileLen == 5
MaxOptWordLen == 2
MaxOptFileLen == 3

\* ---- program constants --------------------------------------------------
ALPHABET_LEN == 256
LINE_SIZE == 16
DEFAULT_CONTEXT == 16
CONTEXT_LIMIT == 1024

SIZE_MOD == 2^SizeBits
NOT_FOUND == SIZE_MOD - 1

\* ---- inputs -------------------------------------------------------------
\* characters of the HEXPATTERN operand: '1' and '3' (hex digits); the
\* operands of BadWords also hold 'g', which is no hex digit
HexChars == {49, 51}
BadWords == {<<103>>, <<103, 49>>, <<51, 103>>}
\* bytes of the FILE operand
FileBytes == {49, 51}
\* values given to -a and -b
OptValues == {0, 1, 16, 1023, 1024}

SeqsUpTo(S, n) == UNION {[1..k -> S] : k \in 0..n}
Words == SeqsUpTo(HexChars, MaxWordLen) \cup BadWords
Files == SeqsUpTo(FileBytes, MaxFileLen)
\* the smaller operands of the runs checked for termination
LiveWords == SeqsUpTo(HexChars, MaxLiveWordLen) \cup BadWords
LiveFiles == SeqsUpTo(FileBytes, MaxLiveFileLen)
\* the short operands of the runs with options
OptWords == SeqsUpTo(HexChars, MaxOptWordLen)
OptFiles == SeqsUpTo(FileBytes, MaxOptFileLen)

\* a C array holding the elements of sequence s, indexed from 0
ZeroBased(s) == [k \in 0..(Len(s) - 1) |-> s[k + 1]]

VARIABLES pc, before, after, color, hexlify,
          pattern, pattern_size, pattern_null,
          delta1, delta2,
          file, file_size, last, next, i, count,
          matches, rows, shown, hit, acc, wrapped

vars == <<pc, before, after, color, hexlify, pattern, pattern_size,
          pattern_null, delta1, delta2, file, file_size, last, next, i,
          count, matches, rows, shown, hit, acc, wrapped>>

\* ---- memory accesses ----------------------------------------------------
\* acc collects the arrays that were accessed, and "oob" once an access
\* fell outside its array.  wrapped tells that the cursor i of the current
\* call of bm_search was decremented below 0.
Touch(a, name, n, k) ==
    a \cup {name} \cup (IF k \in 0..(n - 1) THEN {} ELSE {"oob"})

\* the element read at index k of an array of n elements; an index outside
\* the array is recorded by Touch and reads no element of the array
Rd(arr, n, k) == IF k \in 0..(n - 1) THEN arr[k] ELSE -1

\* ---- mgrep.c: hchar, hex_decode -----------------------------------------
\* -1 stands for the error exit of hchar
hchar(c) ==
    IF c >= 48 /\ c <= 57 THEN c - 48
    ELSE IF c >= 97 /\ c <= 102 THEN c - 97 + 10
    ELSE IF c >= 65 /\ c <= 70 THEN c - 65 + 10
    ELSE -1

\* result of hex_decode: NULL, the process exit of hchar, or the bytes
hex_decode(word) ==
    LET wlen == Len(word)
        ret_size == wlen \div 2
    IN  IF wlen = 0 THEN [kind |-> "null", bytes |-> <<>>]
        ELSE IF wlen % 2 # 0 THEN [kind |-> "null", bytes |-> <<>>]
        ELSE IF \E k \in 1..wlen : hchar(word[k]) = -1
             THEN [kind |-> "exit", bytes |-> <<>>]
        ELSE [kind |-> "ok",
              bytes |-> [k \in 0..(ret_size - 1) |->
                           ((hchar(word[2*k + 1]) * 16)
                              + hchar(word[2*k + 2])) % 256]]

\* ---- boyer_moore.c: make_delta1 -----------------------------------------
\* max that yields its first argument
max_Mut(a, b) == a

max(a, b) == IF a < b THEN b ELSE a

\* second loop of make_delta1 running over the last byte too
Delta1Bound_Mut(patlen) == patlen

Delta1Bound(patlen) == patlen - 1

RECURSIVE delta1_loop(_, _, _, _)
delta1_loop(st, pat, patlen, k) ==
    IF k < Delta1Bound(patlen)
    THEN LET c == Rd(pat, patlen, k)
             a1 == Touch(st.acc, "pat", patlen, k)
             a2 == Touch(a1, "delta1", ALPHABET_LEN, c)
         IN  delta1_loop([tab |-> IF c \in DOMAIN st.tab
                                   THEN [st.tab EXCEPT ![c] = patlen - 1 - k]
                                   ELSE st.tab,
                          acc |-> a2], pat, patlen, k + 1)
    ELSE st

make_delta1(a, pat, patlen) ==
    delta1_loop([tab |-> [c \in 0..(ALPHABET_LEN - 1) |-> patlen],
                 acc |-> a], pat, patlen, 0)

\* ---- boyer_moore.c: is_prefix, suffix_length ----------------------------
RECURSIVE is_prefix_loop(_, _, _, _, _)
is_prefix_loop(a, word, wordlen, pos, k) ==
    IF k < wordlen - pos
    THEN LET a2 == Touch(Touch(a, "pat", wordlen, k), "pat", wordlen, pos + k)
         IN  IF Rd(word, wordlen, k) # Rd(word, wordlen, pos + k)
             THEN [ret |-> 0, acc |-> a2]
             ELSE is_prefix_loop(a2, word, wordlen, pos, k + 1)
    ELSE [ret |-> 1, acc |-> a]

is_prefix(a, word, wordlen, pos) == is_prefix_loop(a, word, wordlen, pos, 0)

\* loop bound of suffix_length off by one
SuffixGuard_Mut(k, pos) == k <= pos

SuffixGuard(k, pos) == k < pos

RECURSIVE suffix_length_loop(_, _, _, _, _)
suffix_length_loop(a, word, wordlen, pos, k) ==
    LET a2 == Touch(Touch(a, "pat", wordlen, pos - k),
                    "pat", wordlen, wordlen - 1 - k)
    IN  IF Rd(word, wordlen, pos - k) = Rd(word, wordlen, wordlen - 1 - k)
           /\ SuffixGuard(k, pos)
        THEN suffix_length_loop(a2, word, wordlen, pos, k + 1)
        ELSE [ret |-> k, acc |-> a2]

suffix_length(a, word, wordlen, pos) ==
    suffix_length_loop(a, word, wordlen, pos, 0)

\* ---- boyer_moore.c: make_delta2 -----------------------------------------
\* an entry of the malloc'ed table that no statement has written yet
UNWRITTEN == -1

\* first-loop value off by one
FirstValue_Mut(last_prefix_index, patlen, p) ==
    last_prefix_index + (patlen - p)

FirstValue(last_prefix_index, patlen, p) ==
    last_prefix_index + (patlen - 1 - p)

\* second-loop value without the matched suffix
SecondValue_Mut(patlen, p, slen) == patlen - 1 - p

SecondValue(patlen, p, slen) == patlen - 1 - p + slen

\* first loop stopping before index 0
FirstLoopGuard_Mut(p) == p > 0

FirstLoopGuard(p) == p >= 0

\* first loop, p = patlen-1 down to 0
RECURSIVE delta2_first(_, _, _, _)
delta2_first(st, pat, patlen, p) ==
    IF FirstLoopGuard(p)
    THEN LET r == is_prefix(st.acc, pat, patlen, p + 1)
             lpi == IF r.ret # 0 THEN p + 1 ELSE st.lpi
             a2 == Touch(r.acc, "delta2w", patlen, p)
         IN  delta2_first([tab |-> IF p \in DOMAIN st.tab
                                    THEN [st.tab EXCEPT
                                            ![p] = FirstValue(lpi, patlen, p)]
                                    ELSE st.tab,
                           lpi |-> lpi, acc |-> a2], pat, patlen, p - 1)
    ELSE st

\* second loop, p = 0 up to patlen-2
RECURSIVE delta2_second(_, _, _, _)
delta2_second(st, pat, patlen, p) ==
    IF p < patlen - 1
    THEN LET r == suffix_length(st.acc, pat, patlen, p)
             slen == r.ret
             a2 == Touch(Touch(r.acc, "pat", patlen, p - slen),
                         "pat", patlen, patlen - 1 - slen)
             differ == Rd(pat, patlen, p - slen)
                         # Rd(pat, patlen, patlen - 1 - slen)
             a3 == IF differ
                   THEN Touch(a2, "delta2w", patlen, patlen - 1 - slen)
                   ELSE a2
         IN  delta2_second(
               [tab |-> IF differ /\ (patlen - 1 - slen) \in DOMAIN st.tab
                        THEN [st.tab EXCEPT ![patlen - 1 - slen] =
                                SecondValue(patlen, p, slen)]
                        ELSE st.tab,
                lpi |-> st.lpi, acc |-> a3], pat, patlen, p + 1)
    ELSE st

delta2_after_first(a, pat, patlen) ==
    delta2_first([tab |-> [k \in 0..(patlen - 1) |-> UNWRITTEN],
                  lpi |-> patlen - 1, acc |-> a], pat, patlen, patlen - 1)

make_delta2(a, pat, patlen) ==
    delta2_second(delta2_after_first(a, pat, patlen), pat, patlen, 0)

\* ---- boyer_moore.c: bm_search ---------------------------------------------
\* the window file+last of length file_size-last that main hands to bm_search
StringAt(f, fsize, lst) == [k \in 0..(fsize - lst - 1) |-> f[lst + k]]
StringLen(fsize, lst) == (fsize - lst) % SIZE_MOD

\* a signed cursor: patlen-1 without the wrap of size_t
BmEnter_Mut(patlen) == patlen - 1

\* size_t i = patlen-1
BmEnter(patlen) == (patlen - 1) % SIZE_MOD

\* return i
BmResult_Mut(k) == k % SIZE_MOD

\* return i + 1
BmResult(k) == (k + 1) % SIZE_MOD

\* the inner while loop; st = [i, j, acc, wrapped]
RECURSIVE bm_inner(_, _, _, _, _)
bm_inner(st, string, stringlen, pat, patlen) ==
    IF st.j >= 0
    THEN LET a2 == Touch(Touch(st.acc, "string", stringlen, st.i),
                         "pat", patlen, st.j)
         IN  IF Rd(string, stringlen, st.i) = Rd(pat, patlen, st.j)
             THEN bm_inner([i |-> (st.i - 1) % SIZE_MOD,
                            j |-> st.j - 1,
                            acc |-> a2,
                            wrapped |-> st.wrapped \/ st.i = 0],
                           string, stringlen, pat, patlen)
             ELSE [st EXCEPT !.acc = a2]
    ELSE st

\* i += max(delta1[string[i]], delta2[j])
BmShift(k, j, string, stringlen, d1, d2, patlen) ==
    (k + max(Rd(d1, ALPHABET_LEN, Rd(string, stringlen, k)),
             Rd(d2, patlen, j))) % SIZE_MOD

\* ---- mgrep.c: print_match -----------------------------------------------
\* the while loop: the offsets cur printed at the head of the emitted rows
RECURSIVE print_rows(_, _, _)
print_rows(rs, cur, end) ==
    IF cur < end
    THEN print_rows(rs \cup {cur}, (cur + LINE_SIZE) % SIZE_MOD, end)
    ELSE rs

\* the for loops of a row: the file indices whose byte is printed; the
\* others are padded out
RowCells(cur, start, end) ==
    {k \in cur..(cur + LINE_SIZE - 1) : ~((k < start) \/ (k > end))}

PrintStart(offset, bef) == (offset - bef) % SIZE_MOD

\* rows: the emitted rows; shown: the file indices printed in them
print_match(offset, psize, bef, aft) ==
    LET start == PrintStart(offset, bef)
        end == (offset + psize + aft - 1) % SIZE_MOD
        start_pad == start % LINE_SIZE
        cur == start - start_pad
        rs == print_rows({}, cur, end)
    IN  [rows |-> rs,
         shown |-> UNION {RowCells(c, start, end) : c \in rs}]

\* ---- mgrep.c: main ------------------------------------------------------
\* last += next + 1: the scan resumes inside the match
Advance_Mut(lst, nxt, psize) == (lst + nxt + 1) % SIZE_MOD

\* last += next + pattern_size
Advance(lst, nxt, psize) == (lst + nxt + psize) % SIZE_MOD

Init ==
    /\ pc = "getopt"
    /\ before = DEFAULT_CONTEXT
    /\ after = DEFAULT_CONTEXT
    /\ color = 0
    /\ hexlify = TRUE
    /\ pattern = ZeroBased(<<>>)
    /\ pattern_size = 0
    /\ pattern_null = FALSE
    /\ delta1 = ZeroBased(<<>>)
    /\ delta2 = ZeroBased(<<>>)
    /\ file = ZeroBased(<<>>)
    /\ file_size = 0
    /\ last = 0
    /\ next = 0
    /\ i = 0
    /\ count = 0
    /\ matches = <<>>
    /\ rows = {}
    /\ shown = {}
    /\ hit = [offset |-> 0, size |-> 0]
    /\ acc = {}
    /\ wrapped = FALSE

\* case 'a'
OptA ==
    /\ pc = "getopt"
    /\ \E ia \in OptValues :
         after' = IF (ia > 0) /\ (ia < CONTEXT_LIMIT) THEN ia ELSE after
    /\ UNCHANGED <<pc, before, color, hexlify, pattern, pattern_size,
                   pattern_null, delta1, delta2, file, file_size, last,
                   next, i, count, matches, rows, shown, hit, acc, wrapped>>

\* case 'b'
OptB ==
    /\ pc = "getopt"
    /\ \E ib \in OptValues :
         before' = IF (ib > 0) /\ (ib < CONTEXT_LIMIT) THEN ib ELSE before
    /\ UNCHANGED <<pc, after, color, hexlify, pattern, pattern_size,
                   pattern_null, delta1, delta2, file, file_size, last,
                   next, i, count, matches, rows, shown, hit, acc, wrapped>>

\* case 'c'
OptC ==
    /\ pc = "getopt"
    /\ color < MaxOptC
    /\ color' = color + 1
    /\ UNCHANGED <<pc, before, after, hexlify, pattern, pattern_size,
                   pattern_null, delta1, delta2, file, file_size, last,
                   next, i, count, matches, rows, shown, hit, acc, wrapped>>

\* case 'H'
OptH ==
    /\ pc = "getopt"
    /\ hexlify' = ~hexlify
    /\ UNCHANGED <<pc, before, after, color, pattern, pattern_size,
                   pattern_null, delta1, delta2, file, file_size, last,
                   next, i, count, matches, rows, shown, hit, acc, wrapped>>

\* getopt returns -1; if (!isatty(STDOUT_FILENO) && color) color--
EndOpts ==
    /\ pc = "getopt"
    /\ \E tty \in BOOLEAN :
         color' = IF ~tty /\ color # 0 THEN color - 1 ELSE color
    /\ pc' = "pattern"
    /\ UNCHANGED <<before, after, hexlify, pattern, pattern_size,
                   pattern_null, delta1, delta2, file, file_size, last,
                   next, i, count, matches, rows, shown, hit, acc, wrapped>>

\* lines 211-226: the pattern from argv[0]
ParsePatternFrom(W) ==
    /\ pc = "pattern"
    /\ \E word \in W :
         IF hexlify
         THEN LET r == hex_decode(word)
              IN  /\ pc' = IF r.kind = "exit" THEN "exit" ELSE "delta1"
                  /\ pattern' = IF r.kind = "ok" THEN r.bytes
                                ELSE ZeroBased(<<>>)
                  /\ pattern_size' = IF r.kind = "ok" THEN Len(word) \div 2
                                     ELSE 0
                  /\ pattern_null' = (r.kind = "null")
         ELSE /\ pc' = "delta1"
              /\ pattern' = ZeroBased(word)
              /\ pattern_size' = Len(word)
              /\ pattern_null' = FALSE
    /\ UNCHANGED <<before, after, color, hexlify, delta1, delta2, file,
                   file_size, last, next, i, count, matches, rows, shown,
                   hit, acc, wrapped>>

ParsePattern == ParsePatternFrom(Words)

\* line 231
BuildDelta1 ==
    /\ pc = "delta1"
    /\ LET r == make_delta1(acc, pattern, pattern_size)
       IN  /\ delta1' = r.tab
           /\ acc' = r.acc
    /\ pc' = "delta2"
    /\ UNCHANGED <<before, after, color, hexlify, pattern, pattern_size,
                   pattern_null, delta2, file, file_size, last, next, i,
                   count, matches, rows, shown, hit, wrapped>>

\* line 232
BuildDelta2 ==
    /\ pc = "delta2"
    /\ LET r == make_delta2(acc, pattern, pattern_size)
       IN  /\ delta2' = r.tab
           /\ acc' = r.acc
    /\ pc' = "open"
    /\ UNCHANGED <<before, after, color, hexlify, pattern, pattern_size,
                   pattern_null, delta1, file, file_size, last, next, i,
                   count, matches, rows, shown, hit, wrapped>>

\* lines 240-284: the file is mapped; an empty file is skipped; otherwise
\* the first call of bm_search is entered
OpenFileFrom(F) ==
    /\ pc = "open"
    /\ \E f \in F :
         /\ file' = ZeroBased(f)
         /\ file_size' = Len(f)
         /\ IF Len(f) = 0
            THEN /\ pc' = "done"
                 /\ UNCHANGED <<last, next, i>>
            ELSE /\ pc' = "search"
                 /\ last' = 0
                 /\ next' = 0
                 /\ i' = BmEnter(pattern_size)
    /\ wrapped' = FALSE
    /\ UNCHANGED <<before, after, color, hexlify, pattern, pattern_size,
                   pattern_null, delta1, delta2, count, matches, rows,
                   shown, hit, acc>>

OpenFile == OpenFileFrom(Files)

Window == StringAt(file, file_size, last)
WindowLen == StringLen(file_size, last)

InnerResult ==
    bm_inner([i |-> i, j |-> pattern_size - 1, acc |-> acc,
              wrapped |-> wrapped],
             Window, WindowLen, pattern, pattern_size)

\* one iteration of the outer loop of bm_search that ends in return i+1
BmMatch ==
    /\ pc = "search"
    /\ i < WindowLen
    /\ LET r == InnerResult
       IN  /\ r.j < 0
           /\ next' = BmResult(r.i)
           /\ i' = r.i
           /\ acc' = r.acc
           /\ wrapped' = r.wrapped
    /\ pc' = "returned"
    /\ UNCHANGED <<before, after, color, hexlify, pattern, pattern_size,
                   pattern_null, delta1, delta2, file, file_size, last,
                   count, matches, rows, shown, hit>>

\* one iteration of the outer loop of bm_search that ends in the shift
BmMismatch ==
    /\ pc = "search"
    /\ i < WindowLen
    /\ LET r == InnerResult
       IN  /\ ~(r.j < 0)
           /\ i' = BmShift(r.i, r.j, Window, WindowLen, delta1, delta2,
                           pattern_size)
           /\ acc' = Touch(Touch(Touch(r.acc, "string", WindowLen, r.i),
                                 "delta1", ALPHABET_LEN,
                                 Rd(Window, WindowLen, r.i)),
                           "delta2", pattern_size, r.j)
           /\ wrapped' = r.wrapped
    /\ UNCHANGED <<pc, before, after, color, hexlify, pattern, pattern_size,
                   pattern_null, delta1, delta2, file, file_size, last, next,
                   count, matches, rows, shown, hit>>

\* the outer loop ends: return NOT_FOUND
BmNotFound ==
    /\ pc = "search"
    /\ ~(i < WindowLen)
    /\ next' = NOT_FOUND
    /\ pc' = "returned"
    /\ UNCHANGED <<before, after, color, hexlify, pattern, pattern_size,
                   pattern_null, delta1, delta2, file, file_size, last, i,
                   count, matches, rows, shown, hit, acc, wrapped>>

\* lines 285-295: the body of the find-all loop, then the next call
Report ==
    /\ pc = "returned"
    /\ next # NOT_FOUND
    /\ LET offset == (last + next) % SIZE_MOD
           out == print_match(offset, pattern_size, before, after)
       IN  /\ hit' = [offset |-> offset, size |-> pattern_size]
           /\ rows' = out.rows
           /\ shown' = out.shown
           /\ matches' = Append(matches, offset)
    /\ last' = Advance(last, next, pattern_size)
    /\ count' = count + 1
    /\ i' = BmEnter(pattern_size)
    /\ wrapped' = FALSE
    /\ pc' = "search"
    /\ UNCHANGED <<before, after, color, hexlify, pattern, pattern_size,
                   pattern_null, delta1, delta2, file, file_size, next, acc>>

\* lines 297-309: the find-all loop ends, the file is unmapped and closed
EndScan ==
    /\ pc = "returned"
    /\ next = NOT_FOUND
    /\ pc' = "done"
    /\ UNCHANGED <<before, after, color, hexlify, pattern, pattern_size,
                   pattern_null, delta1, delta2, file, file_size, last, next,
                   i, count, matches, rows, shown, hit, acc, wrapped>>

Next ==
    \/ OptH
    \/ EndOpts
    \/ ParsePattern
    \/ BuildDelta1
    \/ BuildDelta2
    \/ OpenFile
    \/ BmMatch
    \/ BmMismatch
    \/ BmNotFound
    \/ Report
    \/ EndScan

Spec == Init /\ [][Next]_vars

\* the same run over the smaller operands; the program runs on one thread,
\* so a call of bm_search that has a next step takes it
ParsePatternLive == ParsePatternFrom(LiveWords)
OpenFileLive == OpenFileFrom(LiveFiles)

NextLive ==
    \/ OptH
    \/ EndOpts
    \/ ParsePatternLive
    \/ BuildDelta1
    \/ BuildDelta2
    \/ OpenFileLive
    \/ BmMatch
    \/ BmMismatch
    \/ BmNotFound
    \/ Report
    \/ EndScan

LiveSpec ==
    Init /\ [][NextLive]_vars
         /\ WF_vars(BmMatch \/ BmMismatch \/ BmNotFound)

\* ---- runs with options --------------------------------------------------
\* the whole program with -a, -b, -c and -H, over short operands
ParsePatternOpts == ParsePatternFrom(OptWords)
OpenFileOpts == OpenFileFrom(OptFiles)

NextOpts ==
    \/ OptA
    \/ OptB
    \/ OptC
    \/ OptH
    \/ EndOpts
    \/ ParsePatternOpts
    \/ BuildDelta1
    \/ BuildDelta2
    \/ OpenFileOpts
    \/ BmMatch
    \/ BmMismatch
    \/ BmNotFound
    \/ Report
    \/ EndScan

SpecOpts == Init /\ [][NextOpts]_vars

\* ---- properties ----------------------------------------------------------
Min(S) == CHOOSE x \in S : \A y \in S : x <= y
Max(S) == CHOOSE x \in S : \A y \in S : x >= y

\* P occurs in B at offset o
OccursAt(B, blen, P, plen, o) ==
    /\ o >= 0
    /\ o + plen <= blen
    /\ \A k \in 0..(plen - 1) : B[o + k] = P[k]

Occurrences(B, blen, P, plen) ==
    {o \in 0..(blen - plen) : OccursAt(B, blen, P, plen, o)}

\* exhaustive leftmost search
NaiveSearch(B, blen, P, plen) ==
    IF Occurrences(B, blen, P, plen) = {} THEN NOT_FOUND
    ELSE Min(Occurrences(B, blen, P, plen))

\* greedy leftmost-first scan for non-overlapping occurrences at or after from
RECURSIVE NaiveScan(_, _, _, _, _)
NaiveScan(B, blen, P, plen, from) ==
    LET occ == {o \in Occurrences(B, blen, P, plen) : o >= from}
    IN  IF occ = {} THEN <<>>
        ELSE <<Min(occ)>> \o NaiveScan(B, blen, P, plen, Min(occ) + plen)

\* C1: an offset returned by bm_search lies inside the buffer together with
\* the whole pattern, and the buffer holds the pattern there byte for byte.
C1_ReturnedOffsetIsMatch ==
    (pc = "returned" /\ pattern_size >= 1 /\ next # NOT_FOUND) =>
        /\ next + pattern_size <= WindowLen
        /\ \A k \in 0..(pattern_size - 1) : Window[next + k] = pattern[k]

C1_Witness ==
    /\ pc = "returned"
    /\ pattern_size >= 3
    /\ next # NOT_FOUND
    /\ next >= 2
    /\ "delta2" \in acc

\* C2: bm_search returns the smallest offset at which the pattern occurs in
\* the buffer, and NOT_FOUND only when it occurs nowhere: the result is the
\* result of the exhaustive leftmost search.
C2_AgreesWithNaive ==
    (pc = "returned" /\ pattern_size >= 1) =>
        next = NaiveSearch(Window, WindowLen, pattern, pattern_size)

C2_Witness ==
    /\ pc = "returned"
    /\ pattern_size >= 3
    /\ last > 0
    /\ WindowLen > pattern_size
    /\ next = NOT_FOUND
    /\ i > pattern_size - 1

\* C3: the find-all loop reports the offsets of the greedy leftmost-first
\* non-overlapping scan, each match starts at or after the end of the one
\* before, and last never exceeds file_size.
C3_DriverIsGreedyScan ==
    (pattern_size >= 1) =>
        /\ last <= file_size
        /\ \A n \in 2..Len(matches) :
               matches[n] >= matches[n - 1] + pattern_size
        /\ (pc = "done") =>
               matches = NaiveScan(file, file_size, pattern, pattern_size, 0)

C3_Witness ==
    /\ pc = "done"
    /\ pattern_size >= 2
    /\ Len(matches) >= 2
    /\ \E o \in Occurrences(file, file_size, pattern, pattern_size) :
           \A n \in 1..Len(matches) : matches[n] # o

\* C4: print_match emits at least one row and the rows hold every byte of
\* the match, for every hit and every context size.
C4_EveryHitRendered ==
    (count >= 1) =>
        /\ rows # {}
        /\ \A k \in hit.offset..(hit.offset + hit.size - 1) : k \in shown

\* C5: every iteration of the outer loop of bm_search that ends in the shift
\* leaves i greater than at the start of the iteration, and every call of
\* bm_search returns.
C5_ScanTerminates ==
    /\ [][(pc = "search" /\ pc' = "search" /\ pattern_size >= 1)
             => i' > i]_vars
    /\ ((pc = "search") ~> (pc = "returned"))

C5_Witness ==
    /\ pc = "search"
    /\ pattern_size >= 3
    /\ "delta2" \in acc
    /\ last = 0
    /\ i > pattern_size - 1
    /\ i < file_size

C7_Delta2Range ==
    (pc = "open" /\ pattern_size >= 1) =>
        /\ DOMAIN delta2 = 0..(pattern_size - 1)
        /\ \A k \in 0..(pattern_size - 1) :
             /\ delta2[k] # UNWRITTEN
             /\ delta2[k] >= 1
             /\ delta2[k] <= 2 * pattern_size - 1

C7_Witness ==
    /\ pc = "open"
    /\ pattern_size >= 3
    /\ \E k \in 0..(pattern_size - 1) : delta2[k] = 2 * pattern_size - 1
    /\ \E k \in 0..(pattern_size - 1) : delta2[k] = 1

\* C8: no access of make_delta1, make_delta2, is_prefix, suffix_length and
\* bm_search falls outside its array; a pattern longer than the buffer gives
\* NOT_FOUND without a read of the buffer; the cursor i of bm_search wraps
\* below 0 only in the iteration that returns the match at offset 0.
C8_AccessesInRange ==
    (pattern_size >= 1) =>
        /\ "oob" \notin acc
        /\ wrapped => (pc = "returned" /\ next = 0)
        /\ (pattern_size > file_size) =>
               /\ "string" \notin acc
               /\ (pc = "returned") => (next = NOT_FOUND)

C8_Witness ==
    /\ pc = "returned"
    /\ pattern_size >= 3
    /\ wrapped
    /\ last > 0
    /\ {"pat", "string", "delta1", "delta2", "delta2w"} \subseteq acc

\* the positions p of the second loop that write delta2[k]
Candidates(P, plen, k) ==
    {p \in 0..(plen - 2) :
        LET slen == suffix_length({}, P, plen, p).ret
        IN  /\ plen - 1 - slen = k
            /\ P[p - slen] # P[k]}

CandidateValue(P, plen, p) ==
    plen - 1 - p + suffix_length({}, P, plen, p).ret

\* C9: the second loop of make_delta2 only lowers entries, and the final
\* delta2[k] is the minimum of the value the first loop stored at k and of
\* the candidates patlen-1-p+slen(p) of the positions p that write k.
C9_SecondLoopMinimum ==
    (pc = "open" /\ pattern_size >= 1) =>
        LET first == delta2_after_first({}, pattern, pattern_size).tab
        IN  \A k \in 0..(pattern_size - 1) :
              LET cand == Candidates(pattern, pattern_size, k)
              IN  /\ delta2[k] =
                       Min({first[k]} \cup
                           {CandidateValue(pattern, pattern_size, p) :
                               p \in cand})
                  /\ \A p \in cand :
                       /\ CandidateValue(pattern, pattern_size, p) <= first[k]
                       /\ \A q \in cand : q < p =>
                            CandidateValue(pattern, pattern_size, p)
                              <= CandidateValue(pattern, pattern_size, q)

C9_Witness ==
    /\ pc = "open"
    /\ pattern_size >= 4
    /\ \E k \in 0..(pattern_size - 1) :
           Cardinality(Candidates(pattern, pattern_size, k)) >= 2
    /\ \E k \in 0..(pattern_size - 1) :
           Candidates(pattern, pattern_size, k) = {}

\* C10: with a pattern of length 0 no byte of the pattern, of the buffer or
\* of delta2 is accessed, bm_search starts at the largest size_t value and
\* returns NOT_FOUND, and the find-all loop reports no match.
C10_EmptyPattern ==
    (pc \in {"delta2", "open", "search", "returned", "done"}
       /\ pattern_size = 0) =>
        /\ acc \cap {"pat", "string", "delta2", "delta2w", "oob"} = {}
        /\ (pc = "search") => (i = NOT_FOUND)
        /\ (pc = "returned") => (next = NOT_FOUND)
        /\ matches = <<>>
        /\ count = 0

C10_Witness ==
    /\ pc = "done"
    /\ pattern_size = 0
    /\ pattern_null
    /\ file_size >= 1
    /\ next = NOT_FOUND

====
